---- MODULE Spec2Model ----
(***************************************************************************)
(* Expense router of the expense tracker backend (backend/routes/expense): *)
(* the `expense` collection, the requests that read and write it, and the  *)
(* response each request gets.  One action per route handler; a handler    *)
(* makes a single call on the collection (duplicate: a read then a write), *)
(* and is modelled as one atomic step.                                      *)
(***************************************************************************)
EXTENDS Integers, Sequences, FiniteSets, TLC

VARIABLES
    expenses,   \* the `expense` collection: _id -> document
    nextId,     \* the next _id the driver generates (ids are never reused)
    now,        \* the server clock, read by `new Date()`
    resp        \* the last request handled and the response it got

vars == <<expenses, nextId, now, resp>>

----------------------------------------------------------------------------
(* Bounds of the model *)

\* _ids the store hands out in one behaviour
MaxId == 2
\* last instant of the clock
MaxTime == 1
\* longest list in a bulk request body
MaxBulk == 2

(* Constants of the program *)

\* expenses: z.array(...).min(1).max(100), expenseIds likewise
BulkMin == 1
BulkMax == 100
\* limit: z.coerce.number().positive().max(50).default(10)
LimitMax == 50
LimitDefault == 10

----------------------------------------------------------------------------
(* JSON values of a request body or query string *)

Num(n) == [t |-> "num", v |-> n]
Str(s) == [t |-> "str", v |-> s]

\* the JSON number n + 1/2
Half(n) == [t |-> "num", v |-> n, half |-> TRUE]

IsNum(x) == x.t = "num"
\* a number without a fractional part
IsWhole(x) == "half" \notin DOMAIN x
IsStr(x) == x.t = "str"

Users == {"u1", "u2"}
\* a request without a token the guard accepts
NoUser == "anonymous"

Types == {"income", "expense"}

\* a string that does not cast to an ObjectId, e.g. "abc"
BadId == 0
\* well-formed ObjectIds; MaxId + 1 is never handed out
ObjectIds == 1 .. (MaxId + 1)
PathIds == {BadId} \cup ObjectIds

Times == 0 .. MaxTime

\* " (Copy)"
CopySuffix == <<" ", "(", "C", "o", "p", "y", ")">>
Rent == <<"R">>
Desc == <<"d">>

Has(b, k) == k \in DOMAIN b

----------------------------------------------------------------------------
(* The store: mongoose calls on expenseModel (db.js, ExpenseSchema) *)

\* paths of ExpenseSchema besides _id
DocKeys == {"title", "description", "amount", "date", "type", "userId"}

\* mongoose casts a filter's _id to ObjectId and throws CastError when it cannot
CastFails(id) == id = BadId

\* the filter without its userId condition
OwnerFilterAnyUser(store, id, user) ==
    {i \in DOMAIN store : i = id}

\* filter { _id: id, userId: user }: the _ids it matches
OwnerFilter(store, id, user) ==
    {i \in DOMAIN store : i = id /\ store[i].userId = user}

\* the $in filter without its userId condition
OwnerFilterInAnyUser(store, ids, user) ==
    {i \in DOMAIN store : i \in ids}

\* filter { _id: { $in: ids }, userId: user }
OwnerFilterIn(store, ids, user) ==
    {i \in DOMAIN store : i \in ids /\ store[i].userId = user}

\* a document as the response carries it
WithId(store, i) == [_id |-> i, doc |-> store[i]]

\* store with document d inserted under _id i
Insert(store, i, d) == [j \in DOMAIN store \cup {i} |-> IF j = i THEN d ELSE store[j]]

\* store without the _ids in gone
Remove(store, gone) == [j \in DOMAIN store \ gone |-> store[j]]

----------------------------------------------------------------------------
(* Credential/session guard: the `auth` middleware every route names first *)

\* a bearer token [user, good]: the user it names, and whether it is present,
\* well signed and unexpired.
\* The identity the guard attaches; NoUser when it lets nothing through
Auth(tok) == IF tok.good THEN tok.user ELSE NoUser

\* the status the guard answers on failure
AuthFailStatus == {401, 403}

----------------------------------------------------------------------------
(* Validation: the zod schemas, applied to req.body / req.query *)

\* z.string().min(1)
NonEmptyString(x) == IsStr(x) /\ Len(x.v) >= 1

\* z.number() without .positive()
AnyNumber(x) == IsNum(x)

\* z.number().positive()
PositiveNumber(x) == IsNum(x) /\ x.v > 0

\* z.coerce.date(): new Date(x) is a valid date (a timestamp is, "bad" is not)
CoercibleDate(x) == IsNum(x)

\* z.enum(['income', 'expense'])
TypeEnum(x) == IsStr(x) /\ x.v \in Types

\* the object schema of POST /add and of each element of POST /add/bulk
ExpenseSchemaOk(b) ==
    /\ Has(b, "title") /\ NonEmptyString(b.title)
    /\ Has(b, "description") /\ NonEmptyString(b.description)
    /\ Has(b, "amount") /\ PositiveNumber(b.amount)
    /\ Has(b, "date") /\ CoercibleDate(b.date)
    /\ Has(b, "type") /\ TypeEnum(b.type)

\* { expenses: z.array(<expense>).min(1).max(100) }
BulkSchemaOk(b) ==
    /\ Has(b, "expenses")
    /\ Len(b.expenses) >= BulkMin
    /\ Len(b.expenses) <= BulkMax
    /\ \A k \in 1 .. Len(b.expenses) : ExpenseSchemaOk(b.expenses[k])

\* the all-optional object schema of PUT /:id; unknown keys are not rejected
UpdateSchemaOk(b) ==
    /\ Has(b, "title") => NonEmptyString(b.title)
    /\ Has(b, "description") => NonEmptyString(b.description)
    /\ Has(b, "amount") => PositiveNumber(b.amount)
    /\ Has(b, "date") => CoercibleDate(b.date)
    /\ Has(b, "type") => TypeEnum(b.type)

\* { expenseIds: z.array(z.string()).min(1).max(100) }
IdsSchemaOk(b) ==
    /\ Has(b, "expenseIds")
    /\ Len(b.expenseIds) >= BulkMin
    /\ Len(b.expenseIds) <= BulkMax
    /\ \A k \in 1 .. Len(b.expenseIds) : IsStr(b.expenseIds[k])

\* { startDate: z.coerce.date().optional(), endDate: z.coerce.date().optional() }
SummaryQueryOk(q) ==
    /\ Has(q, "startDate") => CoercibleDate(q.startDate)
    /\ Has(q, "endDate") => CoercibleDate(q.endDate)

\* limit: z.coerce.number().positive().max(50): Number(x) is a number in (0, 50]
LimitOk(x) ==
    /\ IsNum(x)
    /\ x.v > 0 \/ (x.v = 0 /\ ~IsWhole(x))
    /\ x.v < LimitMax \/ (x.v = LimitMax /\ IsWhole(x))

\* { limit: <limit>.default(10), type: z.enum([...]).optional() }
TopQueryOk(q) ==
    /\ Has(q, "limit") => LimitOk(q.limit)
    /\ Has(q, "type") => TypeEnum(q.type)

\* parseQuery.data.limit
ParsedLimit(q) == IF Has(q, "limit") THEN q.limit ELSE Num(LimitDefault)

----------------------------------------------------------------------------
(* Responses *)

Guard == "guard"
Validation == "validation"
Persistence == "persistence"

NotFound == "Expense not found"
InvalidData == "Invalid data"
InvalidQuery == "Invalid query parameters"

\* the response to a request: op and req describe the request, user is the
\* identity the guard resolved, inputOk whether req passes the route's schema,
\* layers the layers the request entered in order, status and out the answer
Response(op, user, req, ok, layers, status, out) ==
    [op |-> op, user |-> user, req |-> req, inputOk |-> ok,
     layers |-> layers, status |-> status, out |-> out]

\* the guard's rejection: the handler is never entered
Rejected(op, req, ok, status) ==
    Response(op, NoUser, req, ok, <<Guard>>, status, "unauthorized")

----------------------------------------------------------------------------
(* POST /add *)

\* what create() is given: the five destructured fields and the caller's id
NewExpense(b, user) ==
    [title |-> b.title.v, description |-> b.description.v, amount |-> b.amount.v,
     date |-> b.date.v, type |-> b.type.v, userId |-> user]

\* the route with the schema checked ahead of the guard
AddValidatesFirst(tok, b) ==
    LET user == Auth(tok)
        ok == ExpenseSchemaOk(b)
    IN  /\ UNCHANGED now
        /\ \/ /\ ~ok
              /\ resp' = Response("add", user, b, ok, <<Validation>>,
                                  400, InvalidData)
              /\ UNCHANGED <<expenses, nextId>>
           \/ /\ ok
              /\ user = NoUser
              /\ \E st \in AuthFailStatus :
                    resp' = Response("add", NoUser, b, ok, <<Validation, Guard>>,
                                     st, "unauthorized")
              /\ UNCHANGED <<expenses, nextId>>
           \/ /\ ok
              /\ user # NoUser
              /\ nextId <= MaxId
              /\ expenses' = Insert(expenses, nextId, NewExpense(b, user))
              /\ nextId' = nextId + 1
              /\ resp' = Response("add", user, b, ok,
                                  <<Validation, Guard, Persistence>>,
                                  201, WithId(expenses', nextId))

Add(tok, b) ==
    LET user == Auth(tok)
        ok == ExpenseSchemaOk(b)
    IN  /\ UNCHANGED now
        /\ \/ /\ user = NoUser
              /\ \E st \in AuthFailStatus : resp' = Rejected("add", b, ok, st)
              /\ UNCHANGED <<expenses, nextId>>
           \/ /\ user # NoUser
              /\ ~ok
              /\ resp' = Response("add", user, b, ok, <<Guard, Validation>>,
                                  400, InvalidData)
              /\ UNCHANGED <<expenses, nextId>>
           \/ /\ user # NoUser
              /\ ok
              /\ nextId <= MaxId
              /\ expenses' = Insert(expenses, nextId, NewExpense(b, user))
              /\ nextId' = nextId + 1
              /\ resp' = Response("add", user, b, ok,
                                  <<Guard, Validation, Persistence>>,
                                  201, WithId(expenses', nextId))

----------------------------------------------------------------------------
(* POST /add/bulk *)

\* the spread written after the userId: an element's own userId wins
UserIdThenSpread(e, user) ==
    [k \in DocKeys |-> IF k = "userId" /\ ~Has(e, k) THEN user ELSE e[k].v]

\* { ...expense, userId: req.user._id } after mongoose dropped the keys that
\* are no path of the schema: the spread's own userId is overwritten
WithUserId(e, user) ==
    [k \in DocKeys |-> IF k = "userId" THEN user ELSE e[k].v]

\* insertMany: the k-th element gets the k-th new _id
InsertMany(store, first, docs) ==
    [j \in DOMAIN store \cup (first .. (first + Len(docs) - 1)) |->
        IF j \in DOMAIN store THEN store[j] ELSE docs[j - first + 1]]

AddBulk(tok, b) ==
    LET user == Auth(tok)
        ok == BulkSchemaOk(b)
    IN  /\ UNCHANGED now
        /\ \/ /\ user = NoUser
              /\ \E st \in AuthFailStatus : resp' = Rejected("bulk", b, ok, st)
              /\ UNCHANGED <<expenses, nextId>>
           \/ /\ user # NoUser
              /\ ~ok
              /\ resp' = Response("bulk", user, b, ok, <<Guard, Validation>>,
                                  400, InvalidData)
              /\ UNCHANGED <<expenses, nextId>>
           \/ /\ user # NoUser
              /\ ok
              /\ nextId + Len(b.expenses) - 1 <= MaxId
              /\ LET docs == [k \in 1 .. Len(b.expenses) |->
                                 WithUserId(b.expenses[k], user)]
                 IN  /\ expenses' = InsertMany(expenses, nextId, docs)
                     /\ nextId' = nextId + Len(docs)
                     /\ resp' = Response("bulk", user, b, ok,
                                  <<Guard, Validation, Persistence>>, 201,
                                  [k \in 1 .. Len(docs) |->
                                      WithId(expenses', nextId + k - 1)])

----------------------------------------------------------------------------
(* GET /:id, DELETE /:id *)

GetById(tok, id) ==
    LET user == Auth(tok)
        hit == OwnerFilter(expenses, id, user)
    IN  /\ UNCHANGED <<expenses, nextId, now>>
        /\ \/ /\ user = NoUser
              /\ \E st \in AuthFailStatus : resp' = Rejected("get", id, TRUE, st)
           \/ /\ user # NoUser
              /\ resp' = Response("get", user, id, TRUE, <<Guard, Persistence>>,
                            IF CastFails(id) THEN 500 ELSE IF hit = {} THEN 404 ELSE 200,
                            IF CastFails(id) THEN "Error fetching expense"
                            ELSE IF hit = {} THEN NotFound
                            ELSE WithId(expenses, id))

DeleteById(tok, id) ==
    LET user == Auth(tok)
        hit == OwnerFilter(expenses, id, user)
    IN  /\ UNCHANGED <<nextId, now>>
        /\ \/ /\ user = NoUser
              /\ \E st \in AuthFailStatus : resp' = Rejected("delete", id, TRUE, st)
              /\ UNCHANGED expenses
           \/ /\ user # NoUser
              /\ expenses' = IF CastFails(id) THEN expenses ELSE Remove(expenses, hit)
              /\ resp' = Response("delete", user, id, TRUE, <<Guard, Persistence>>,
                            IF CastFails(id) THEN 500 ELSE IF hit = {} THEN 404 ELSE 200,
                            IF CastFails(id) THEN "Error deleting expense"
                            ELSE IF hit = {} THEN NotFound
                            ELSE "Expense deleted successfully")

----------------------------------------------------------------------------
(* PUT /:id *)

\* the $set operator of an update document, empty when it has none
SetOf(b) == IF Has(b, "$set") THEN b["$set"] ELSE <<>>

\* findOneAndUpdate's update, applied to a document: the keys of the update
\* that are paths of the schema are set, as are those of its $set operator;
\* no validator runs (runValidators is not given)
ApplyUpdate(doc, b) ==
    [k \in DocKeys |-> IF Has(b, k) THEN b[k].v
                       ELSE IF Has(SetOf(b), k) THEN SetOf(b)[k].v
                       ELSE doc[k]]

\* the update document the handler hands to findOneAndUpdate: req.body
UpdateDoc(b) == b

UpdateById(tok, id, b) ==
    LET user == Auth(tok)
        ok == UpdateSchemaOk(b)
        hit == OwnerFilter(expenses, id, user)
        req == [id |-> id, body |-> b]
    IN  /\ UNCHANGED <<nextId, now>>
        /\ \/ /\ user = NoUser
              /\ \E st \in AuthFailStatus : resp' = Rejected("update", req, ok, st)
              /\ UNCHANGED expenses
           \/ /\ user # NoUser
              /\ ~ok
              /\ resp' = Response("update", user, req, ok, <<Guard, Validation>>,
                                  400, InvalidData)
              /\ UNCHANGED expenses
           \/ /\ user # NoUser
              /\ ok
              /\ expenses' = IF CastFails(id) \/ hit = {} THEN expenses
                             ELSE [expenses EXCEPT
                                     ![id] = ApplyUpdate(@, UpdateDoc(b))]
              /\ resp' = Response("update", user, req, ok,
                            <<Guard, Validation, Persistence>>,
                            IF CastFails(id) THEN 500 ELSE IF hit = {} THEN 404 ELSE 200,
                            IF CastFails(id) THEN "Error updating expense"
                            ELSE IF hit = {} THEN NotFound
                            ELSE WithId(expenses', id))

----------------------------------------------------------------------------
(* POST /duplicate/:id *)

\* a copy that keeps the date of the original
CopyKeepsDate(doc, user, at) ==
    [title |-> doc.title \o CopySuffix, description |-> doc.description,
     amount |-> doc.amount, date |-> doc.date, type |-> doc.type, userId |-> user]

\* what create() is given for the copy of doc
CopyOf(doc, user, at) ==
    [title |-> doc.title \o CopySuffix, description |-> doc.description,
     amount |-> doc.amount, date |-> at, type |-> doc.type, userId |-> user]

Duplicate(tok, id) ==
    LET user == Auth(tok)
        hit == OwnerFilter(expenses, id, user)
    IN  /\ UNCHANGED now
        /\ \/ /\ user = NoUser
              /\ \E st \in AuthFailStatus : resp' = Rejected("duplicate", id, TRUE, st)
              /\ UNCHANGED <<expenses, nextId>>
           \/ /\ user # NoUser
              /\ CastFails(id) \/ hit = {}
              /\ resp' = Response("duplicate", user, id, TRUE, <<Guard, Persistence>>,
                            IF CastFails(id) THEN 500 ELSE 404,
                            IF CastFails(id) THEN "Error duplicating expense"
                            ELSE NotFound)
              /\ UNCHANGED <<expenses, nextId>>
           \/ /\ user # NoUser
              /\ ~CastFails(id) /\ hit # {}
              /\ nextId <= MaxId
              /\ expenses' = Insert(expenses, nextId, CopyOf(expenses[id], user, now))
              /\ nextId' = nextId + 1
              /\ resp' = Response("duplicate", user, id, TRUE, <<Guard, Persistence>>,
                            201, WithId(expenses', nextId))

----------------------------------------------------------------------------
(* DELETE /bulk *)

\* req.body.expenseIds as the set of strings it lists
ListedIds(b) == {b.expenseIds[k].v : k \in 1 .. Len(b.expenseIds)}

DeleteBulk(tok, b) ==
    LET user == Auth(tok)
        ok == IdsSchemaOk(b)
    IN  /\ UNCHANGED <<nextId, now>>
        /\ \/ /\ user = NoUser
              /\ \E st \in AuthFailStatus : resp' = Rejected("bulkdelete", b, ok, st)
              /\ UNCHANGED expenses
           \/ /\ user # NoUser
              /\ ~ok
              /\ resp' = Response("bulkdelete", user, b, ok, <<Guard, Validation>>,
                                  400, InvalidData)
              /\ UNCHANGED expenses
           \/ /\ user # NoUser
              /\ ok
              /\ LET ids == ListedIds(b)
                     bad == \E i \in ids : CastFails(i)
                     hit == OwnerFilterIn(expenses, ids, user)
                 IN  /\ expenses' = IF bad THEN expenses ELSE Remove(expenses, hit)
                     /\ resp' = Response("bulkdelete", user, b, ok,
                                   <<Guard, Validation, Persistence>>,
                                   IF bad THEN 500 ELSE 200,
                                   IF bad THEN "Error deleting expenses"
                                   ELSE [deletedCount |-> Cardinality(hit)])

----------------------------------------------------------------------------
(* GET /stats/summary *)

\* the $match without its userId condition
SummaryMatchAnyUser(store, user, q) ==
    {i \in DOMAIN store :
        /\ Has(q, "startDate") => store[i].date >= q.startDate.v
        /\ Has(q, "endDate") => store[i].date <= q.endDate.v}

\* $match: the caller's documents, dated within [startDate, endDate] where given
SummaryMatch(store, user, q) ==
    {i \in DOMAIN store :
        /\ store[i].userId = user
        /\ Has(q, "startDate") => store[i].date >= q.startDate.v
        /\ Has(q, "endDate") => store[i].date <= q.endDate.v}

RECURSIVE SumAmounts(_, _)
\* $sum: '$amount' over the documents ids
SumAmounts(store, ids) ==
    IF ids = {} THEN 0
    ELSE LET i == CHOOSE j \in ids : TRUE
         IN  store[i].amount + SumAmounts(store, ids \ {i})

\* $group by '$type': one group per type that has a document
\* (the groups' average, total / count, is left out)
GroupByType(store, ids) ==
    {[_id |-> ty,
      total |-> SumAmounts(store, {i \in ids : store[i].type = ty}),
      count |-> Cardinality({i \in ids : store[i].type = ty})] :
        ty \in {store[i].type : i \in ids}}

\* summary.find(s => s._id === ty)?.total || 0
TotalOf(groups, ty) ==
    IF \E g \in groups : g._id = ty
    THEN (CHOOSE g \in groups : g._id = ty).total
    ELSE 0

SummaryOf(store, user, q) ==
    LET groups == GroupByType(store, SummaryMatch(store, user, q))
        totalIncome == TotalOf(groups, "income")
        totalExpenses == TotalOf(groups, "expense")
    IN  [totalIncome |-> totalIncome, totalExpenses |-> totalExpenses,
         balance |-> totalIncome - totalExpenses, breakdown |-> groups]

Summary(tok, q) ==
    LET user == Auth(tok)
        ok == SummaryQueryOk(q)
    IN  /\ UNCHANGED <<expenses, nextId, now>>
        /\ \/ /\ user = NoUser
              /\ \E st \in AuthFailStatus : resp' = Rejected("summary", q, ok, st)
           \/ /\ user # NoUser
              /\ ~ok
              /\ resp' = Response("summary", user, q, ok, <<Guard, Validation>>,
                                  400, InvalidQuery)
           \/ /\ user # NoUser
              /\ ok
              /\ resp' = Response("summary", user, q, ok,
                                  <<Guard, Validation, Persistence>>,
                                  200, SummaryOf(expenses, user, q))

----------------------------------------------------------------------------
(* GET /top *)

\* filter = { userId }, and type when the query gives one
TopMatch(store, user, q) ==
    {i \in DOMAIN store :
        /\ store[i].userId = user
        /\ Has(q, "type") => store[i].type = q.type.v}

\* .sort({ amount: 1 })
SortedByAmountAsc(store, ids) ==
    {s \in [1 .. Cardinality(ids) -> ids] :
        /\ \A a, c \in 1 .. Cardinality(ids) : a # c => s[a] # s[c]
        /\ \A a \in 1 .. (Cardinality(ids) - 1) :
              store[s[a]].amount <= store[s[a + 1]].amount}

\* .sort({ amount: -1 }): the orders of ids it may produce (ties in any order)
SortedByAmountDesc(store, ids) ==
    {s \in [1 .. Cardinality(ids) -> ids] :
        /\ \A a, c \in 1 .. Cardinality(ids) : a # c => s[a] # s[c]
        /\ \A a \in 1 .. (Cardinality(ids) - 1) :
              store[s[a]].amount >= store[s[a + 1]].amount}

Min(a, c) == IF a <= c THEN a ELSE c

\* .limit(n) for a whole n >= 1; 0 is no limit
Limit(s, n) == IF n = 0 THEN s ELSE SubSeq(s, 1, Min(n, Len(s)))

\* the whole numbers .limit(l) may cut at: l itself; for a number that is no
\* whole number, which the schema lets through, the query is given it as it
\* is, and either fails or has it rounded down or up
Cuts(l) == IF IsWhole(l) THEN {l.v} ELSE {l.v, l.v + 1}

Top(tok, q) ==
    LET user == Auth(tok)
        ok == TopQueryOk(q)
    IN  /\ UNCHANGED <<expenses, nextId, now>>
        /\ \/ /\ user = NoUser
              /\ \E st \in AuthFailStatus : resp' = Rejected("top", q, ok, st)
           \/ /\ user # NoUser
              /\ ~ok
              /\ resp' = Response("top", user, q, ok, <<Guard, Validation>>,
                                  400, InvalidQuery)
           \/ /\ user # NoUser
              /\ ok
              /\ \E s \in SortedByAmountDesc(expenses, TopMatch(expenses, user, q)),
                    n \in Cuts(ParsedLimit(q)) :
                    resp' = Response("top", user, q, ok,
                                <<Guard, Validation, Persistence>>, 200,
                                [k \in 1 .. Len(Limit(s, n)) |->
                                    WithId(expenses, Limit(s, n)[k])])
           \/ /\ user # NoUser
              /\ ok
              /\ ~IsWhole(ParsedLimit(q))
              /\ resp' = Response("top", user, q, ok,
                                  <<Guard, Validation, Persistence>>, 500,
                                  "Error fetching top expenses")

----------------------------------------------------------------------------
(* The clock *)

Tick ==
    /\ now < MaxTime
    /\ now' = now + 1
    /\ UNCHANGED <<expenses, nextId, resp>>

----------------------------------------------------------------------------
(* Requests the clients send *)

\* one good token per user, and one the guard rejects
Callers ==
    {[user |-> u, good |-> TRUE] : u \in Users} \cup {[user |-> "u1", good |-> FALSE]}

Body(title, description, amount, date, type) ==
    [title |-> title, description |-> description, amount |-> amount,
     date |-> date, type |-> type]

BaseBody == Body(Str(Rent), Str(Desc), Num(1), Num(0), Str("expense"))

Salary == Body(Str(Rent), Str(Desc), Num(2), Num(0), Str("income"))

BadAmount == [BaseBody EXCEPT !.amount = Num(0)]

BadType == [BaseBody EXCEPT !.type = Str("other")]

\* bodies that fail the schema of POST /add: one field wrong, or missing
InvalidBodies ==
    {BadAmount, BadType, [BaseBody EXCEPT !.amount = Num(-1)],
     [BaseBody EXCEPT !.amount = Str(<<"1">>)],
     [BaseBody EXCEPT !.title = Str(<<>>)],
     [BaseBody EXCEPT !.date = Str("bad")],
     [k \in DOMAIN BaseBody \ {"type"} |-> BaseBody[k]]}

\* a valid body that carries a userId of its own
Foreign(b, u) == b @@ ("userId" :> Str(u))

SeqsUpTo(S, n) == UNION {[1 .. k -> S] : k \in 0 .. n}

----------------------------------------------------------------------------
(* Initial state: an empty collection *)

Init ==
    /\ expenses = <<>>
    /\ nextId = 1
    /\ now = 0
    /\ resp = Response("none", NoUser, <<>>, TRUE, <<>>, 0, "none")

----------------------------------------------------------------------------
(* Reading, updating and deleting by id *)

AccessAddBodies == {BaseBody, BadAmount}

AccessUpdateBodies ==
    {"amount" :> Num(2), "amount" :> Num(0), "userId" :> Str("u2"),
     "$set" :> ("amount" :> Num(-1))}

NextAccess ==
    \/ \E tok \in Callers, b \in AccessAddBodies : Add(tok, b)
    \/ \E tok \in Callers, id \in PathIds : GetById(tok, id)
    \/ \E tok \in Callers, id \in PathIds, b \in AccessUpdateBodies :
          UpdateById(tok, id, b)
    \/ \E tok \in Callers, id \in PathIds : DeleteById(tok, id)

SpecAccess == Init /\ [][NextAccess]_vars

\* user owns the expense id in the current collection
Owns(user, id) == id \in DOMAIN expenses /\ expenses[id].userId = user

\* the :id of a by-id request
PathId(r) == IF r.op = "update" THEN r.req.id ELSE r.req

\* the step answers a get, update or delete of an authenticated caller for an
\* id that is absent or another user's (for update: with a body that passes
\* validation, which the handler checks before it looks the id up)
ForeignAccess ==
    /\ resp'.op \in {"get", "update", "delete"}
    /\ resp'.user # NoUser
    /\ resp'.inputOk
    /\ ~Owns(resp'.user, PathId(resp'))

\* C1: every get, update and delete of an authenticated caller for an id that
\* is absent or another user's is answered 404 "Expense not found", as for an
\* id that does not exist at all, and leaves the collection unchanged.
C1_AnyForeignIdIs404 ==
    [][ForeignAccess =>
          /\ resp'.status = 404
          /\ resp'.out = NotFound
          /\ expenses' = expenses]_vars

\* C1, for ids that cast to an ObjectId (holds under SpecAccess): such an id
\* is answered 404 "Expense not found"; one that does not cast is answered
\* 500; either way the collection is unchanged.
C1_ForeignIdIs404 ==
    [][ForeignAccess =>
          /\ expenses' = expenses
          /\ resp'.status = IF PathId(resp') = BadId THEN 500 ELSE 404
          /\ resp'.status = 404 => resp'.out = NotFound]_vars

\* C1 witness: a delete of another user's existing expense was answered 404
\* and the expense is still there
C1_Witness ==
    /\ resp.op = "delete"
    /\ resp.status = 404
    /\ resp.req \in DOMAIN expenses
    /\ expenses[resp.req].userId # resp.user

\* C3: every stored expense has amount > 0 and type 'income' or
\* 'expense', whatever requests were made.
C3_StoredAmountAndType ==
    \A i \in DOMAIN expenses :
        /\ expenses[i].amount > 0
        /\ expenses[i].type \in {"income", "expense"}

\* C10: a successful update writes exactly the supplied fields among
\* title, description, amount, date and type with the supplied values, and
\* leaves every other field, the owner and every other expense unchanged.
C10_UpdateWritesOnlySupplied ==
    [][resp'.op = "update" /\ resp'.status = 200 =>
          LET id == resp'.req.id
              b == resp'.req.body
          IN  /\ DOMAIN expenses' = DOMAIN expenses
              /\ \A i \in DOMAIN expenses \ {id} : expenses'[i] = expenses[i]
              /\ expenses'[id].userId = expenses[id].userId
              /\ \A k \in {"title", "description", "amount", "date", "type"} :
                    expenses'[id][k] = IF Has(b, k) THEN b[k].v
                                       ELSE expenses[id][k]]_vars

----------------------------------------------------------------------------
(* Bulk delete *)

IdElements == {Str(i) : i \in BadId .. MaxId} \cup {Num(1)}

IdsBodies == {[expenseIds |-> l] : l \in SeqsUpTo(IdElements, MaxBulk)} \cup {<<>>}

NextBulkDelete ==
    \/ \E tok \in Callers, b \in AccessAddBodies : Add(tok, b)
    \/ \E tok \in Callers, b \in IdsBodies : DeleteBulk(tok, b)

SpecBulkDelete == Init /\ [][NextBulkDelete]_vars

\* the step answers a bulk delete of an authenticated caller whose body passes
\* validation
ValidBulkDelete ==
    /\ resp'.op = "bulkdelete"
    /\ resp'.user # NoUser
    /\ resp'.inputOk

\* the ids a bulk delete request lists
Listed(r) == {r.req.expenseIds[k].v : k \in 1 .. Len(r.req.expenseIds)}

\* what a bulk delete has to do: remove the listed expenses of the caller,
\* nothing else, and report how many
BulkDeleteEffect ==
    LET gone == {i \in DOMAIN expenses :
                    i \in Listed(resp') /\ expenses[i].userId = resp'.user}
    IN  /\ resp'.status = 200
        /\ DOMAIN expenses' = DOMAIN expenses \ gone
        /\ \A i \in DOMAIN expenses' : expenses'[i] = expenses[i]
        /\ resp'.out.deletedCount = Cardinality(gone)

\* C6: every bulk delete with a valid list of ids removes exactly the listed
\* expenses of the caller, returns their number as deletedCount, ignores the
\* listed ids that are absent or another user's and leaves every other
\* expense unchanged.
C6_AnyValidListDeletesOwned ==
    [][ValidBulkDelete => BulkDeleteEffect]_vars

\* C6, for lists of ids that cast to an ObjectId (holds under
\* SpecBulkDelete): the claimed effect; a list holding an id that does not
\* cast is answered 500 and removes nothing.
C6_BulkDeleteRemovesOwned ==
    [][ValidBulkDelete =>
          IF BadId \in Listed(resp')
          THEN resp'.status = 500 /\ expenses' = expenses
          ELSE BulkDeleteEffect]_vars

\* C6 witness: of two listed ids one was the caller's and was removed, the
\* other is another user's and is still there
C6_Witness ==
    /\ resp.op = "bulkdelete"
    /\ resp.status = 200
    /\ resp.out.deletedCount = 1
    /\ \E i \in Listed(resp) :
          i \in DOMAIN expenses /\ expenses[i].userId # resp.user

----------------------------------------------------------------------------
(* Duplicate *)

DuplicateAddBodies == {BaseBody, Salary, BadAmount}

NextDuplicate ==
    \/ \E tok \in Callers, b \in DuplicateAddBodies : Add(tok, b)
    \/ \E tok \in Callers, id \in PathIds : Duplicate(tok, id)
    \/ Tick

SpecDuplicate == Init /\ [][NextDuplicate]_vars

\* the step answers a duplicate request of an authenticated caller (it is no
\* tick of the clock, which leaves the last response in place)
Duplicating == resp'.op = "duplicate" /\ resp'.user # NoUser /\ now' = now

\* what duplicating an expense of the caller has to do
DuplicateEffect ==
    LET src == expenses[resp'.req]
        new == resp'.out._id
    IN  /\ resp'.status = 201
        /\ new \notin DOMAIN expenses
        /\ new >= nextId
        /\ DOMAIN expenses' = DOMAIN expenses \cup {new}
        /\ \A i \in DOMAIN expenses : expenses'[i] = expenses[i]
        /\ expenses'[new] =
              [title |-> src.title \o <<" ", "(", "C", "o", "p", "y", ")">>,
               description |-> src.description, amount |-> src.amount,
               date |-> now, type |-> src.type, userId |-> resp'.user]
        /\ resp'.out.doc = expenses'[new]

\* C7: duplicating an expense of the caller adds exactly one record with a
\* new id, the title followed by " (Copy)", the same description, amount and
\* type, the caller as owner and the duplication time as date, and changes no
\* other record; a source id that is absent or another user's is answered 404
\* and creates nothing.
C7_DuplicateOr404 ==
    [][Duplicating =>
          IF Owns(resp'.user, resp'.req) THEN DuplicateEffect
          ELSE resp'.status = 404 /\ expenses' = expenses]_vars

\* C7, for ids that cast to an ObjectId (holds under SpecDuplicate): the
\* claimed copy, and 404 for an absent or foreign source; an id that does not
\* cast is answered 500; neither creates a record.
C7_DuplicateCopies ==
    [][Duplicating =>
          IF Owns(resp'.user, resp'.req) THEN DuplicateEffect
          ELSE /\ resp'.status = IF resp'.req = BadId THEN 500 ELSE 404
               /\ expenses' = expenses
               /\ nextId' = nextId]_vars

\* C7 witness: a copy was made whose date differs from its original's
C7_Witness ==
    /\ resp.op = "duplicate"
    /\ resp.status = 201
    /\ resp.req \in DOMAIN expenses
    /\ expenses[resp.out._id].date # expenses[resp.req].date
    /\ expenses[resp.out._id].amount = expenses[resp.req].amount

----------------------------------------------------------------------------
(* Creating *)

CreateAddBodies ==
    {BaseBody, Salary, Foreign(BaseBody, "u1"), Foreign(Salary, "u2"), BadAmount}

CreateBulkElements ==
    {BaseBody, Foreign(Salary, "u2"), Foreign(BaseBody, "u1"), BadType}

CreateBulkBodies ==
    {[expenses |-> l] : l \in SeqsUpTo(CreateBulkElements, MaxBulk)} \cup {<<>>}

NextCreate ==
    \/ \E tok \in Callers, b \in CreateAddBodies : Add(tok, b)
    \/ \E tok \in Callers, b \in CreateBulkBodies : AddBulk(tok, b)

SpecCreate == Init /\ [][NextCreate]_vars

\* the payloads of a create request: the body, or the elements of its list
Payloads(r) == IF r.op = "add" THEN <<r.req>> ELSE r.req.expenses

\* the records a create request answers with, in the order of its payloads
Created(r) == IF r.op = "add" THEN <<r.out>> ELSE r.out

\* C2: a create or bulk create of an authenticated caller with a valid
\* payload is answered 201, and the record stored for each payload carries the
\* caller's id as userId, whatever userId the payload itself carries.
C2_StoredUserIdIsCaller ==
    resp.op \in {"add", "bulk"} /\ resp.user # NoUser /\ resp.inputOk =>
        /\ resp.status = 201
        /\ resp.user \in Users
        /\ Len(Created(resp)) = Len(Payloads(resp))
        /\ \A k \in 1 .. Len(Created(resp)) :
              /\ Created(resp)[k]._id \in DOMAIN expenses
              /\ expenses[Created(resp)[k]._id].userId = resp.user
              /\ Created(resp)[k].doc.userId = resp.user
              /\ expenses[Created(resp)[k]._id].amount = Payloads(resp)[k].amount.v

\* C2 witness: a bulk create was stored whose element names another user
C2_Witness ==
    /\ resp.op = "bulk"
    /\ resp.status = 201
    /\ \E k \in 1 .. Len(resp.req.expenses) :
          /\ Has(resp.req.expenses[k], "userId")
          /\ resp.req.expenses[k].userId.v # resp.user
          /\ expenses[resp.out[k]._id].userId = resp.user

----------------------------------------------------------------------------
(* Validating *)

ValidateAddBodies == InvalidBodies \cup {BaseBody}

ValidateBulkBodies ==
    {[expenses |-> l] : l \in SeqsUpTo({BaseBody, BadAmount, BadType}, MaxBulk)}
        \cup {<<>>}

ValidateUpdateBodies ==
    {"amount" :> Num(1), "amount" :> Num(0), "amount" :> Num(-1),
     "type" :> Str("other"), ("amount" :> Num(1)) @@ ("type" :> Str("other")),
     ("title" :> Str(Rent)) @@ ("date" :> Str("bad")), "title" :> Str(<<>>),
     "$set" :> ("amount" :> Num(-1))}

NextValidate ==
    \/ \E tok \in Callers, b \in ValidateAddBodies : Add(tok, b)
    \/ \E tok \in Callers, b \in ValidateBulkBodies : AddBulk(tok, b)
    \/ \E tok \in Callers, id \in PathIds, b \in ValidateUpdateBodies :
          UpdateById(tok, id, b)

SpecValidate == Init /\ [][NextValidate]_vars

\* the object carries an amount <= 0 or a type other than the two enumerated
Offending(b) ==
    \/ Has(b, "amount") /\ b.amount.t = "num" /\ b.amount.v <= 0
    \/ Has(b, "type") /\ ~(b.type.t = "str" /\ b.type.v \in {"income", "expense"})

\* the request is a create, bulk create or update that carries such an object
OffendingRequest(r) ==
    \/ r.op = "add" /\ Offending(r.req)
    \/ r.op = "bulk" /\ Has(r.req, "expenses")
          /\ \E k \in 1 .. Len(r.req.expenses) : Offending(r.req.expenses[k])
    \/ r.op = "update" /\ Offending(r.req.body)

\* C4: a create, bulk create or update of an authenticated caller whose
\* amount is <= 0 or whose type is not enumerated (in any element of a bulk
\* list) is answered 400 without reaching the persistence layer: the
\* collection is unchanged and no id is used.
C4_OffendingIsRejected ==
    [][resp'.user # NoUser /\ OffendingRequest(resp') =>
          /\ resp'.status = 400
          /\ \A k \in 1 .. Len(resp'.layers) : resp'.layers[k] # "persistence"
          /\ expenses' = expenses
          /\ nextId' = nextId]_vars

\* C4 witness: a bulk list with a valid and an offending element was
\* rejected while ids were still to be had
C4_Witness ==
    /\ resp.op = "bulk"
    /\ resp.status = 400
    /\ Has(resp.req, "expenses")
    /\ \E k \in 1 .. Len(resp.req.expenses) : Offending(resp.req.expenses[k])
    /\ \E k \in 1 .. Len(resp.req.expenses) : ~Offending(resp.req.expenses[k])
    /\ nextId + Len(resp.req.expenses) - 1 <= MaxId

\* the statuses of the guard's rejection
Unauthorized(r) == r.status \in {401, 403}

\* C5 as stated: validation comes before the guard: a request whose input
\* fails validation is answered 400, only a request that passed validation is
\* rejected by the guard, and persistence is reached only after both passed.
C5_ValidationBeforeGuard ==
    resp.op # "none" =>
        /\ ~resp.inputOk => resp.status = 400
        /\ Unauthorized(resp) => resp.inputOk
        /\ (\E k \in 1 .. Len(resp.layers) : resp.layers[k] = "persistence") =>
              resp.inputOk /\ resp.user # NoUser

\* C5, amended: the guard comes before validation: a request without a
\* token the guard accepts is rejected by the guard (401/403) whether or not
\* its input is valid and enters no other layer, only a request that passed
\* the guard is answered 400 by validation, and persistence is reached last,
\* only after both passed.
C5_GuardBeforeValidation ==
    resp.op # "none" =>
        /\ resp.layers[1] = "guard"
        /\ resp.user = NoUser <=> Unauthorized(resp)
        /\ resp.user = NoUser => resp.layers = <<"guard">>
        /\ resp.user # NoUser /\ ~resp.inputOk =>
              resp.status = 400 /\ resp.layers = <<"guard", "validation">>
        /\ resp.status = 400 => resp.user # NoUser /\ ~resp.inputOk
        /\ \A k \in 1 .. Len(resp.layers) :
              resp.layers[k] = "persistence" =>
                  /\ k = Len(resp.layers)
                  /\ resp.inputOk
                  /\ resp.user # NoUser

\* C5 witness: a request with invalid input was rejected by the guard
C5_Witness ==
    /\ resp.op = "add"
    /\ Unauthorized(resp)
    /\ ~resp.inputOk

----------------------------------------------------------------------------
(* Summary statistics *)

SummaryAddBodies ==
    {Salary, BaseBody,
     [Salary EXCEPT !.amount = Num(1), !.date = Num(MaxTime)],
     [BaseBody EXCEPT !.amount = Num(2), !.date = Num(MaxTime)],
     BadAmount}

DateParams == {Num(d) : d \in Times} \cup {Str("bad")}

SummaryQueries ==
    {<<>>} \cup {"startDate" :> d : d \in DateParams}
           \cup {"endDate" :> d : d \in DateParams}
           \cup {("startDate" :> d) @@ ("endDate" :> e) : d, e \in DateParams}

NextSummary ==
    \/ \E tok \in Callers, b \in SummaryAddBodies : Add(tok, b)
    \/ \E tok \in Callers, q \in SummaryQueries : Summary(tok, q)

SpecSummary == Init /\ [][NextSummary]_vars

\* expense i counts for a summary of user over the range of query q
Counts(i, user, q) ==
    /\ i \in DOMAIN expenses
    /\ expenses[i].userId = user
    /\ Has(q, "startDate") => q.startDate.v <= expenses[i].date
    /\ Has(q, "endDate") => expenses[i].date <= q.endDate.v

RECURSIVE TotalUpTo(_, _, _, _)
\* the amounts of the expenses 1 .. n of type ty that count, added up
TotalUpTo(n, user, q, ty) ==
    IF n = 0 THEN 0
    ELSE TotalUpTo(n - 1, user, q, ty)
            + (IF Counts(n, user, q) /\ expenses[n].type = ty
               THEN expenses[n].amount ELSE 0)

\* C8: a summary returns as totalIncome the sum of the amounts of the
\* caller's 'income' records within the inclusive date range, as
\* totalExpenses that of the caller's 'expense' records, and as balance
\* their difference; a type without a record counts 0 and other users'
\* records never count.
C8_SummaryTotals ==
    resp.op = "summary" /\ resp.user # NoUser /\ resp.inputOk =>
        /\ resp.status = 200
        /\ resp.out.totalIncome = TotalUpTo(MaxId, resp.user, resp.req, "income")
        /\ resp.out.totalExpenses = TotalUpTo(MaxId, resp.user, resp.req, "expense")
        /\ resp.out.balance = resp.out.totalIncome - resp.out.totalExpenses

\* C8 witness: a summary over a date range counted an income of the caller
\* and no expense, while the collection holds an expense that does not count
\* (another user's, or one dated outside the range)
C8_Witness ==
    /\ resp.op = "summary"
    /\ resp.status = 200
    /\ resp.out.totalIncome > 0
    /\ resp.out.totalExpenses = 0
    /\ Has(resp.req, "startDate")
    /\ \E i \in DOMAIN expenses :
          expenses[i].type = "expense" /\ ~Counts(i, resp.user, resp.req)

----------------------------------------------------------------------------
(* Top-N *)

TopAddBodies ==
    {BaseBody, [BaseBody EXCEPT !.amount = Num(2)],
     [Salary EXCEPT !.amount = Num(3)], BadAmount}

LimitParams ==
    {Num(-1), Num(0), Half(0), Num(1), Num(2), Num(LimitMax), Half(LimitMax),
     Num(LimitMax + 1), Str("abc")}

TypeParams == {Str("income"), Str("expense"), Str("other")}

TopQueries ==
    {<<>>} \cup {"limit" :> l : l \in LimitParams}
           \cup {"type" :> t : t \in TypeParams}
           \cup {("limit" :> l) @@ ("type" :> t) : l \in LimitParams, t \in TypeParams}

NextTop ==
    \/ \E tok \in Callers, b \in TopAddBodies : Add(tok, b)
    \/ \E tok \in Callers, q \in TopQueries : Top(tok, q)

SpecTop == Init /\ [][NextTop]_vars

\* the expenses a top query of user has to choose from
Candidates(user, q) ==
    {i \in DOMAIN expenses :
        /\ expenses[i].userId = user
        /\ Has(q, "type") => expenses[i].type = q.type.v}

\* the limit of a query that gives a whole number, 10 when it gives none
Wanted(q) == IF Has(q, "limit") THEN q.limit.v ELSE 10

\* the query gives a number as limit that lies outside 1..50
LimitOutside(q) ==
    /\ Has(q, "limit")
    /\ q.limit.t = "num"
    /\ \/ q.limit.v < 1
       \/ q.limit.v > 50
       \/ q.limit.v = 50 /\ "half" \in DOMAIN q.limit

\* a top query returned what it has to: only records of the caller (of the
\* given type when a type is given), in descending order of amount,
\* min(limit, number of matching records) of them, none smaller than one
\* left out
TopReturned ==
    LET cand == Candidates(resp.user, resp.req)
        got == {resp.out[k]._id : k \in 1 .. Len(resp.out)}
        want == IF Wanted(resp.req) <= Cardinality(cand)
                THEN Wanted(resp.req) ELSE Cardinality(cand)
    IN  /\ Len(resp.out) = want
        /\ Cardinality(got) = want
        /\ got \subseteq cand
        /\ \A k \in 1 .. Len(resp.out) :
              resp.out[k].doc = expenses[resp.out[k]._id]
        /\ \A k \in 1 .. (Len(resp.out) - 1) :
              resp.out[k].doc.amount >= resp.out[k + 1].doc.amount
        /\ \A i \in got, j \in cand \ got :
              expenses[i].amount >= expenses[j].amount

\* C9: a top query returns only records of the caller (of the given type
\* when a type is given), in descending order of amount, exactly the
\* min(limit, number of matching records) largest; the limit is 10 when
\* omitted, and a limit outside 1..50 is answered 400.
C9_TopN ==
    resp.op = "top" /\ resp.user # NoUser =>
        /\ LimitOutside(resp.req) => resp.status = 400
        /\ ~LimitOutside(resp.req) /\ resp.inputOk =>
              resp.status = 200 /\ TopReturned

\* C9, for limits that are whole numbers (holds under SpecTop): the claimed
\* records for a limit in 1..50 or none, 400 for one outside.
C9_TopNWhole ==
    resp.op = "top" /\ resp.user # NoUser
            /\ (Has(resp.req, "limit") => "half" \notin DOMAIN resp.req.limit) =>
        /\ LimitOutside(resp.req) => resp.status = 400
        /\ resp.inputOk => resp.status = 200 /\ TopReturned

\* C9 witness: a top query with limit 1 returned the larger of two records of
\* the caller and left the smaller out
C9_Witness ==
    /\ resp.op = "top"
    /\ resp.status = 200
    /\ Has(resp.req, "limit") /\ resp.req.limit.v = 1
    /\ Len(resp.out) = 1
    /\ \E j \in Candidates(resp.user, resp.req) :
          expenses[j].amount < resp.out[1].doc.amount

====
